---- MODULE Spec2Model ----
(***************************************************************************)
(* Producer / transformer / consumer pipeline of flexcat (namespace ptc):   *)
(* Produce, PTC_unit and Reduce, one step per atomic load, store,           *)
(* compare-exchange or semaphore operation, interleaved freely.             *)
(* Items are numbered 1, 2, ... in the order the source returns them; 0 is  *)
(* nullptr.                                                                 *)
(***************************************************************************)
EXTENDS Integers, Sequences, FiniteSets, Bags, TLC

\* Largest worker count explored (PTC_unit's numThreads ranges over 1..MaxThreads).
MaxThreads == 2
\* The sources explored return at most MaxLoad - numThreads items before they
\* return false: up to 3 items for one worker, up to 2 for two workers.
MaxLoad == 4
\* ReadReader: unsigned int (_numReads) is modelled UIntBits bits wide, the
\* batch size (records) ranges over 1..MaxRecords, a finite input holds up to
\* MaxInput reads and operator() is called up to MaxCalls times.
UIntBits == 4
MaxRecords == 3
MaxInput == 4
MaxCalls == 7

VARIABLES
    useSemaphore,   \* TSemaphore is a real semaphore (TRUE) or NoSemaphore (FALSE)
    numThreads,     \* PTC_unit::_threads.size()
    process,        \* "running" | "aborted" (std::terminate was called)
    \* ---- Produce
    inItems,        \* Produce::_tlsItems
    eof,            \* Produce::_eof
    pSlotEmpty,     \* Produce::slotEmptySemaphore
    readAvailable,  \* Produce::readAvailableSemaphore
    ppc,            \* position of the producer thread
    pIdx,           \* slot the producer's for loop is at
    pItem,          \* currentItem of the producer thread
    noEmptySlot,    \* noEmptySlot of the producer thread
    numCalls,       \* how often _source was invoked
    numProduced,    \* how often _source returned true
    \* ---- worker threads of PTC_unit
    wpc,            \* position of each worker
    wIdx,           \* slot a worker's for loop is at
    wEof,           \* local eof of getItem
    wTemp,          \* local temp of getItem
    wItem,          \* item of the worker lambda
    wNew,           \* newItem of pushItem
    numTaken,       \* how often getItem returned true
    \* ---- Reduce
    outItems,       \* Reduce::_tlsItems
    run,            \* Reduce::_run
    itemAvailable,  \* Reduce::itemAvailableSemaphore
    rSlotEmpty,     \* Reduce::slotEmptySemaphore
    cpc,            \* position of the consumer thread
    cIdx,           \* slot the consumer's for loop is at
    cItem,          \* currentItem of the consumer thread
    nothingToDo,    \* nothingToDo of the consumer thread
    sunk,           \* the values _sink was invoked on, in order
    \* ---- the thread that owns the PTC_unit
    mpc,            \* position of the coordinating thread
    mIdx,           \* thread being joined / slot Reduce::idle is at
    raised,         \* "none" | "source" | "transformer": what threw
    \* ---- ReadReader
    firstReads,     \* _programParams.firstReads
    records,        \* _programParams.records, the batch size
    endless,        \* the input streams never run out
    inputReads,     \* reads left in the input streams (when not endless)
    rNumReads,      \* ReadReader::_numReads
    rReturned,      \* reads in the batches operator() returned so far
    rLast,          \* size of the batch the last call returned, 0 for null
    rEnded,         \* operator() has returned a null item
    rCalls          \* how often operator() was called

prodVars == <<inItems, eof, pSlotEmpty, readAvailable, ppc, pIdx, pItem,
              noEmptySlot, numCalls, numProduced>>
workVars == <<wpc, wIdx, wEof, wTemp, wItem, wNew, numTaken>>
consVars == <<outItems, run, itemAvailable, rSlotEmpty, cpc, cIdx, cItem,
              nothingToDo, sunk>>
mainVars == <<mpc, mIdx>>
readVars == <<firstReads, records, endless, inputReads, rNumReads,
              rReturned, rLast, rEnded, rCalls>>
confVars == <<useSemaphore, numThreads, process, raised, readVars>>
vars == <<confVars, prodVars, workVars, consVars, mainVars>>

\* _threads.size() + 1, the numSlots both start() calls are given
NumSlots == numThreads + 1
Slots == 1..NumSlots
Workers == 1..numThreads

\* the transformer of the end-to-end scenarios: square an integer
Transformer(i) == i * i

\* a semaphore whose signal(n) wakes one waiter only
SignalOnce(s, n) == s + 1

\* TSemaphore::signal(n) and the guard of TSemaphore::wait
Signal(s, n) == s + n
CanWait(s) == s > 0

Running == process = "running"

\* the longest source explored for the chosen worker count
MaxItems == MaxLoad - numThreads

\* ReadReader::ReadReader: _numReads(0)
ReadReaderInit ==
    /\ rNumReads = 0
    /\ rReturned = 0
    /\ rLast = 0
    /\ rEnded = FALSE
    /\ rCalls = 0

\* a pipeline whose source is not a ReadReader: an endless input, cap 0, and
\* operator() is never called
NoReadReader ==
    /\ firstReads = 0
    /\ records = 1
    /\ endless = TRUE
    /\ inputReads = 0
    /\ ReadReaderInit

\* the state after the constructors of Produce, Reduce and PTC_unit
Init ==
    /\ useSemaphore \in BOOLEAN
    /\ numThreads \in 1..MaxThreads
    /\ NoReadReader
    /\ process = "running"
    /\ raised = "none"
    /\ inItems = << >>
    /\ eof = FALSE
    /\ pSlotEmpty = 0
    /\ readAvailable = 0
    /\ ppc = "unstarted"
    /\ pIdx = 1
    /\ pItem = 0
    /\ noEmptySlot = TRUE
    /\ numCalls = 0
    /\ numProduced = 0
    /\ wpc = [w \in Workers |-> "unstarted"]
    /\ wIdx = [w \in Workers |-> 1]
    /\ wEof = [w \in Workers |-> FALSE]
    /\ wTemp = [w \in Workers |-> 0]
    /\ wItem = [w \in Workers |-> 0]
    /\ wNew = [w \in Workers |-> 0]
    /\ numTaken = 0
    /\ outItems = << >>
    /\ run = FALSE
    /\ itemAvailable = 0
    /\ rSlotEmpty = 0
    /\ cpc = "unstarted"
    /\ cIdx = 1
    /\ cItem = 0
    /\ nothingToDo = FALSE
    /\ sunk = << >>
    /\ mpc = "constructed"
    /\ mIdx = 1

\* PTC_unit::start: Produce::start, Reduce::start, then the worker threads
PTC_start ==
    /\ Running
    /\ mpc = "constructed"
    /\ inItems' = [s \in Slots |-> 0]
    /\ ppc' = "load"
    /\ run' = TRUE
    /\ outItems' = [s \in Slots |-> 0]
    /\ cpc' = "loop"
    /\ wpc' = [w \in Workers |-> "eofLoad"]
    /\ mpc' = "started"
    /\ UNCHANGED <<confVars, eof, pSlotEmpty, readAvailable, pIdx, pItem,
                   noEmptySlot, numCalls, numProduced, wIdx, wEof, wTemp,
                   wItem, wNew, numTaken, itemAvailable, rSlotEmpty, cIdx,
                   cItem, nothingToDo, sunk, mIdx>>

----------------------------------------------------------------------------
\* The producer thread (the lambda of Produce::start)

\* a producer that goes on after _eof is set
ProducerNextPcIgnoresEof(e, i, nes) ==
    IF i < NumSlots THEN "load"
    ELSE IF nes THEN "wait" ELSE "load"

\* the end of one pass of "for (auto& item : _tlsItems)" body: the eof test,
\* then the next slot, or (after the last slot) the wait / the next pass
ProducerNextPc(e, i, nes) ==
    IF e THEN "done"
    ELSE IF i < NumSlots THEN "load"
    ELSE IF nes THEN "wait" ELSE "load"

\* a producer that takes every slot for an empty one
ProducerLoadAnySlot ==
    /\ Running
    /\ ppc = "load"
    /\ noEmptySlot' = FALSE
    /\ ppc' = "source"
    /\ UNCHANGED <<confVars, inItems, eof, pSlotEmpty, readAvailable, pIdx,
                   pItem, numCalls, numProduced, workVars, consVars, mainVars>>

\* item.load(relaxed) == nullptr
ProducerLoad ==
    /\ Running
    /\ ppc = "load"
    /\ IF inItems[pIdx] = 0
       THEN /\ noEmptySlot' = FALSE
            /\ ppc' = "source"
            /\ UNCHANGED pIdx
       ELSE /\ ppc' = "eofTest"
            /\ UNCHANGED <<noEmptySlot, pIdx>>
    /\ UNCHANGED <<confVars, inItems, eof, pSlotEmpty, readAvailable, pItem,
                   numCalls, numProduced, workVars, consVars, mainVars>>

\* currentItem = make_unique<TItem>(); _source(currentItem) returns true
ProducerSourceItem ==
    /\ Running
    /\ ppc = "source"
    /\ numProduced < MaxItems
    /\ numCalls' = numCalls + 1
    /\ numProduced' = numProduced + 1
    /\ pItem' = numProduced + 1
    /\ ppc' = "store"
    /\ UNCHANGED <<confVars, inItems, eof, pSlotEmpty, readAvailable, pIdx,
                   noEmptySlot, workVars, consVars, mainVars>>

\* _source(currentItem) returns false: _eof.store(true, release)
ProducerSourceEnd ==
    /\ Running
    /\ ppc = "source"
    /\ numCalls' = numCalls + 1
    /\ eof' = TRUE
    /\ ppc' = IF useSemaphore THEN "signal" ELSE "eofTest"
    /\ UNCHANGED <<confVars, inItems, pSlotEmpty, readAvailable, pIdx, pItem,
                   noEmptySlot, numProduced, workVars, consVars, mainVars>>

\* item.store(currentItem.release(), relaxed)
ProducerStore ==
    /\ Running
    /\ ppc = "store"
    /\ inItems' = [inItems EXCEPT ![pIdx] = pItem]
    /\ pItem' = 0
    /\ ppc' = IF useSemaphore THEN "signal" ELSE "eofTest"
    /\ UNCHANGED <<confVars, eof, pSlotEmpty, readAvailable, pIdx,
                   noEmptySlot, numCalls, numProduced, workVars, consVars,
                   mainVars>>

\* a producer that signals once also when _eof is set
ProducerSignalOnceAtEof ==
    /\ Running
    /\ ppc = "signal"
    /\ readAvailable' = Signal(readAvailable, 1)
    /\ ppc' = "eofTest"
    /\ UNCHANGED <<confVars, inItems, eof, pSlotEmpty, pIdx, pItem,
                   noEmptySlot, numCalls, numProduced, workVars, consVars,
                   mainVars>>

\* readAvailableSemaphore.signal(_tlsItems.size()) if _eof, else signal()
ProducerSignal ==
    /\ Running
    /\ ppc = "signal"
    /\ readAvailable' = Signal(readAvailable, IF eof THEN NumSlots ELSE 1)
    /\ ppc' = "eofTest"
    /\ UNCHANGED <<confVars, inItems, eof, pSlotEmpty, pIdx, pItem,
                   noEmptySlot, numCalls, numProduced, workVars, consVars,
                   mainVars>>

\* if (_eof.load(relaxed)) return; else the loop goes on
ProducerEofTest ==
    /\ Running
    /\ ppc = "eofTest"
    /\ ppc' = ProducerNextPc(eof, pIdx, noEmptySlot)
    /\ pIdx' = IF eof THEN pIdx ELSE IF pIdx < NumSlots THEN pIdx + 1 ELSE 1
    /\ noEmptySlot' = IF ~eof /\ pIdx = NumSlots /\ ~noEmptySlot
                      THEN TRUE ELSE noEmptySlot
    /\ UNCHANGED <<confVars, inItems, eof, pSlotEmpty, readAvailable, pItem,
                   numCalls, numProduced, workVars, consVars, mainVars>>

\* slotEmptySemaphore.wait(), or sleep_for(_sleepMS)
ProducerWait ==
    /\ Running
    /\ ppc = "wait"
    /\ IF useSemaphore
       THEN CanWait(pSlotEmpty) /\ pSlotEmpty' = pSlotEmpty - 1
       ELSE UNCHANGED pSlotEmpty
    /\ ppc' = "load"
    /\ noEmptySlot' = TRUE
    /\ UNCHANGED <<confVars, inItems, eof, readAvailable, pIdx, pItem,
                   numCalls, numProduced, workVars, consVars, mainVars>>

Producer ==
    \/ ProducerLoad
    \/ ProducerSourceItem
    \/ ProducerSourceEnd
    \/ ProducerStore
    \/ ProducerSignal
    \/ ProducerEofTest
    \/ ProducerWait

----------------------------------------------------------------------------
\* A worker thread (the lambda of PTC_unit::start): Produce::getItem, the
\* transformer, Reduce::pushItem

\* getItem: bool eof = _eof.load(acquire), then the scan starts at slot 0
GetItemEofLoad(w) ==
    /\ Running
    /\ wpc[w] = "eofLoad"
    /\ wEof' = [wEof EXCEPT ![w] = eof]
    /\ wIdx' = [wIdx EXCEPT ![w] = 1]
    /\ wpc' = [wpc EXCEPT ![w] = "load"]
    /\ UNCHANGED <<confVars, prodVars, wTemp, wItem, wNew, numTaken,
                   consVars, mainVars>>

\* a getItem that reads _eof after the scan instead of before it
GetItemNextPcLateEof(w) ==
    IF wIdx[w] < NumSlots THEN "load"
    ELSE IF eof THEN "done" ELSE "wait"

\* getItem after a slot that gave nothing: the next slot, or after the last
\* one "if (eof) return false" (the worker's while loop ends) or the wait
GetItemNextPc(w) ==
    IF wIdx[w] < NumSlots THEN "load"
    ELSE IF wEof[w] THEN "done" ELSE "wait"

GetItemNextIdx(w) == IF wIdx[w] < NumSlots THEN wIdx[w] + 1 ELSE 1

\* (temp = item.load(relaxed)) != nullptr
GetItemLoad(w) ==
    /\ Running
    /\ wpc[w] = "load"
    /\ wTemp' = [wTemp EXCEPT ![w] = inItems[wIdx[w]]]
    /\ IF inItems[wIdx[w]] # 0
       THEN /\ wpc' = [wpc EXCEPT ![w] = "cas"]
            /\ UNCHANGED wIdx
       ELSE /\ wpc' = [wpc EXCEPT ![w] = GetItemNextPc(w)]
            /\ wIdx' = [wIdx EXCEPT ![w] = GetItemNextIdx(w)]
    /\ UNCHANGED <<confVars, prodVars, wEof, wItem, wNew, numTaken,
                   consVars, mainVars>>

\* a getItem that withdraws in the order of arrival only (a FIFO)
GetItemTakesOldest(w) ==
    inItems[wIdx[w]] = wTemp[w] /\ wTemp[w] = numTaken + 1

\* a getItem that takes what it loaded without comparing
GetItemTakesBlindly(w) == TRUE

\* item.compare_exchange_strong(temp, nullptr, relaxed): does it succeed
GetItemCasSucceeds(w) == inItems[wIdx[w]] = wTemp[w]

\* the compare-exchange and, on success, returnItem.reset(temp). temp is
\* overwritten by the next load and the locals end with the call, so they are
\* put back to their initial values where the code no longer reads them
GetItemCas(w) ==
    /\ Running
    /\ wpc[w] = "cas"
    /\ IF GetItemCasSucceeds(w)
       THEN /\ inItems' = [inItems EXCEPT ![wIdx[w]] = 0]
            /\ wItem' = [wItem EXCEPT ![w] = wTemp[w]]
            /\ numTaken' = numTaken + 1
            /\ wpc' = [wpc EXCEPT ![w] =
                         IF useSemaphore THEN "slotSignal" ELSE "transform"]
            /\ wIdx' = [wIdx EXCEPT ![w] = 1]
            /\ wTemp' = [wTemp EXCEPT ![w] = 0]
            /\ wEof' = [wEof EXCEPT ![w] = FALSE]
       ELSE /\ wTemp' = [wTemp EXCEPT ![w] = 0]
            /\ wpc' = [wpc EXCEPT ![w] = GetItemNextPc(w)]
            /\ wIdx' = [wIdx EXCEPT ![w] = GetItemNextIdx(w)]
            /\ UNCHANGED <<inItems, wItem, numTaken, wEof>>
    /\ UNCHANGED <<confVars, eof, pSlotEmpty, readAvailable, ppc, pIdx, pItem,
                   noEmptySlot, numCalls, numProduced, wNew, consVars,
                   mainVars>>

\* slotEmptySemaphore.signal(); return true
GetItemSignal(w) ==
    /\ Running
    /\ wpc[w] = "slotSignal"
    /\ pSlotEmpty' = Signal(pSlotEmpty, 1)
    /\ wpc' = [wpc EXCEPT ![w] = "transform"]
    /\ UNCHANGED <<confVars, inItems, eof, readAvailable, ppc, pIdx, pItem,
                   noEmptySlot, numCalls, numProduced, wIdx, wEof, wTemp,
                   wItem, wNew, numTaken, consVars, mainVars>>

\* readAvailableSemaphore.wait(), or sleep_for(_sleepMS)
GetItemWait(w) ==
    /\ Running
    /\ wpc[w] = "wait"
    /\ IF useSemaphore
       THEN CanWait(readAvailable) /\ readAvailable' = readAvailable - 1
       ELSE UNCHANGED readAvailable
    /\ wpc' = [wpc EXCEPT ![w] = "eofLoad"]
    /\ UNCHANGED <<confVars, inItems, eof, pSlotEmpty, ppc, pIdx, pItem,
                   noEmptySlot, numCalls, numProduced, wIdx, wEof, wTemp,
                   wItem, wNew, numTaken, consVars, mainVars>>

\* _transformer(std::move(item)) returns; its result is pushItem's newItem
WorkerTransform(w) ==
    /\ Running
    /\ wpc[w] = "transform"
    /\ wNew' = [wNew EXCEPT ![w] = Transformer(wItem[w])]
    /\ wItem' = [wItem EXCEPT ![w] = 0]
    /\ wIdx' = [wIdx EXCEPT ![w] = 1]
    /\ wpc' = [wpc EXCEPT ![w] = "pushLoad"]
    /\ UNCHANGED <<confVars, prodVars, wEof, wTemp, numTaken, consVars,
                   mainVars>>

\* pushItem after a slot that was not free: the next slot, or the wait
PushItemNextPc(w) == IF wIdx[w] < NumSlots THEN "pushLoad" ELSE "pushWait"

\* item.load(relaxed) == nullptr
PushItemLoad(w) ==
    /\ Running
    /\ wpc[w] = "pushLoad"
    /\ IF outItems[wIdx[w]] = 0
       THEN /\ wpc' = [wpc EXCEPT ![w] = "pushCas"]
            /\ UNCHANGED wIdx
       ELSE /\ wpc' = [wpc EXCEPT ![w] = PushItemNextPc(w)]
            /\ wIdx' = [wIdx EXCEPT ![w] = GetItemNextIdx(w)]
    /\ UNCHANGED <<confVars, prodVars, wEof, wTemp, wItem, wNew, numTaken,
                   consVars, mainVars>>

\* a pushItem that stores without comparing
PushItemStoresBlindly(w) == TRUE

\* item.compare_exchange_strong(temp = nullptr, newItem.get(), acq_rel)
PushItemCasSucceeds(w) == outItems[wIdx[w]] = 0

PushItemCas(w) ==
    /\ Running
    /\ wpc[w] = "pushCas"
    /\ IF PushItemCasSucceeds(w)
       THEN /\ outItems' = [outItems EXCEPT ![wIdx[w]] = wNew[w]]
            /\ wpc' = [wpc EXCEPT ![w] = "pushRelease"]
            /\ UNCHANGED wIdx
       ELSE /\ wpc' = [wpc EXCEPT ![w] = PushItemNextPc(w)]
            /\ wIdx' = [wIdx EXCEPT ![w] = GetItemNextIdx(w)]
            /\ UNCHANGED outItems
    /\ UNCHANGED <<confVars, prodVars, wEof, wTemp, wItem, wNew, numTaken,
                   run, itemAvailable, rSlotEmpty, cpc, cIdx, cItem,
                   nothingToDo, sunk, mainVars>>

\* newItem.release(); itemAvailableSemaphore.signal(); return
PushItemRelease(w) ==
    /\ Running
    /\ wpc[w] = "pushRelease"
    /\ wNew' = [wNew EXCEPT ![w] = 0]
    /\ itemAvailable' = IF useSemaphore THEN Signal(itemAvailable, 1)
                        ELSE itemAvailable
    /\ wpc' = [wpc EXCEPT ![w] = "eofLoad"]
    /\ wIdx' = [wIdx EXCEPT ![w] = 1]
    /\ UNCHANGED <<confVars, prodVars, wEof, wTemp, wItem, numTaken,
                   outItems, run, rSlotEmpty, cpc, cIdx, cItem, nothingToDo,
                   sunk, mainVars>>

\* slotEmptySemaphore.wait(), or sleep_for(_sleepMS)
PushItemWait(w) ==
    /\ Running
    /\ wpc[w] = "pushWait"
    /\ IF useSemaphore
       THEN CanWait(rSlotEmpty) /\ rSlotEmpty' = rSlotEmpty - 1
       ELSE UNCHANGED rSlotEmpty
    /\ wpc' = [wpc EXCEPT ![w] = "pushLoad"]
    /\ UNCHANGED <<confVars, prodVars, wIdx, wEof, wTemp, wItem, wNew,
                   numTaken, outItems, run, itemAvailable, cpc, cIdx, cItem,
                   nothingToDo, sunk, mainVars>>

Worker(w) ==
    \/ GetItemEofLoad(w)
    \/ GetItemLoad(w)
    \/ GetItemCas(w)
    \/ GetItemSignal(w)
    \/ GetItemWait(w)
    \/ WorkerTransform(w)
    \/ PushItemLoad(w)
    \/ PushItemCas(w)
    \/ PushItemRelease(w)
    \/ PushItemWait(w)

----------------------------------------------------------------------------
\* The consumer thread (the lambda of Reduce::start)

\* while (_run.load(relaxed) || !nothingToDo) { nothingToDo = true; ...
ConsumerLoopTest(r, ntd) == r \/ ~ntd

ConsumerLoop ==
    /\ Running
    /\ cpc = "loop"
    /\ IF ConsumerLoopTest(run, nothingToDo)
       THEN /\ nothingToDo' = TRUE
            /\ cIdx' = 1
            /\ cpc' = "load"
       ELSE /\ cpc' = "done"
            /\ UNCHANGED <<nothingToDo, cIdx>>
    /\ UNCHANGED <<confVars, prodVars, workVars, outItems, run, itemAvailable,
                   rSlotEmpty, cItem, sunk, mainVars>>

\* the end of one pass of the for body: the next slot, or after the last
\* slot the wait (nothingToDo) or the loop test
ConsumerNextPc(ntd) ==
    IF cIdx < NumSlots THEN "load"
    ELSE IF ntd THEN "wait" ELSE "loop"

ConsumerNextIdx == IF cIdx < NumSlots THEN cIdx + 1 ELSE 1

\* item.load(relaxed) != nullptr
ConsumerLoad ==
    /\ Running
    /\ cpc = "load"
    /\ IF outItems[cIdx] # 0
       THEN /\ cpc' = "reset"
            /\ UNCHANGED cIdx
       ELSE /\ cpc' = ConsumerNextPc(nothingToDo)
            /\ cIdx' = ConsumerNextIdx
    /\ UNCHANGED <<confVars, prodVars, workVars, outItems, run, itemAvailable,
                   rSlotEmpty, cItem, nothingToDo, sunk, mainVars>>

\* currentItem.reset(item.load(relaxed))
ConsumerReset ==
    /\ Running
    /\ cpc = "reset"
    /\ cItem' = outItems[cIdx]
    /\ cpc' = "store"
    /\ UNCHANGED <<confVars, prodVars, workVars, outItems, run, itemAvailable,
                   rSlotEmpty, cIdx, nothingToDo, sunk, mainVars>>

\* a consumer that does not make the slot free again
ConsumerStoreSkipped ==
    /\ Running
    /\ cpc = "store"
    /\ cpc' = IF useSemaphore THEN "signal" ELSE "sink"
    /\ UNCHANGED <<confVars, prodVars, workVars, outItems, run, itemAvailable,
                   rSlotEmpty, cIdx, cItem, nothingToDo, sunk, mainVars>>

\* item.store(nullptr, release)
ConsumerStore ==
    /\ Running
    /\ cpc = "store"
    /\ outItems' = [outItems EXCEPT ![cIdx] = 0]
    /\ cpc' = IF useSemaphore THEN "signal" ELSE "sink"
    /\ UNCHANGED <<confVars, prodVars, workVars, run, itemAvailable,
                   rSlotEmpty, cIdx, cItem, nothingToDo, sunk, mainVars>>

\* slotEmptySemaphore.signal()
ConsumerSignal ==
    /\ Running
    /\ cpc = "signal"
    /\ rSlotEmpty' = Signal(rSlotEmpty, 1)
    /\ cpc' = "sink"
    /\ UNCHANGED <<confVars, prodVars, workVars, outItems, run, itemAvailable,
                   cIdx, cItem, nothingToDo, sunk, mainVars>>

\* nothingToDo = false; _sink(std::move(*currentItem))
ConsumerSink ==
    /\ Running
    /\ cpc = "sink"
    /\ nothingToDo' = FALSE
    /\ sunk' = Append(sunk, cItem)
    /\ cItem' = 0
    /\ cpc' = ConsumerNextPc(FALSE)
    /\ cIdx' = ConsumerNextIdx
    /\ UNCHANGED <<confVars, prodVars, workVars, outItems, run, itemAvailable,
                   rSlotEmpty, mainVars>>

\* itemAvailableSemaphore.wait(), or sleep_for(_sleepMS)
ConsumerWait ==
    /\ Running
    /\ cpc = "wait"
    /\ IF useSemaphore
       THEN CanWait(itemAvailable) /\ itemAvailable' = itemAvailable - 1
       ELSE UNCHANGED itemAvailable
    /\ cpc' = "loop"
    /\ UNCHANGED <<confVars, prodVars, workVars, outItems, run, rSlotEmpty,
                   cIdx, cItem, nothingToDo, sunk, mainVars>>

Consumer ==
    \/ ConsumerLoop
    \/ ConsumerLoad
    \/ ConsumerReset
    \/ ConsumerStore
    \/ ConsumerSignal
    \/ ConsumerSink
    \/ ConsumerWait

----------------------------------------------------------------------------
\* The thread that called PTC_unit::start: waitForFinish, then ~Produce

\* waitForFinish: for (auto& _thread : _threads) _thread.join()
JoinWorker ==
    /\ Running
    /\ mpc = "started"
    /\ wpc[mIdx] = "done"
    /\ IF mIdx < numThreads
       THEN mIdx' = mIdx + 1 /\ UNCHANGED mpc
       ELSE mIdx' = 1 /\ mpc' = "idle"
    /\ UNCHANGED <<confVars, prodVars, workVars, consVars>>

\* an idle() that looks at the first slot only
ReduceIdleFirstSlot ==
    /\ Running
    /\ mpc = "idle"
    /\ IF outItems[1] # 0
       THEN UNCHANGED <<mIdx, mpc>>
       ELSE mIdx' = 1 /\ mpc' = "shutDown"
    /\ UNCHANGED <<confVars, prodVars, workVars, consVars>>

\* while (!_consumer.idle()): Reduce::idle loads one slot (acquire); a
\* non-empty slot makes it return false and the spin calls it again
ReduceIdle ==
    /\ Running
    /\ mpc = "idle"
    /\ IF outItems[mIdx] # 0
       THEN mIdx' = 1 /\ UNCHANGED mpc
       ELSE IF mIdx < NumSlots
            THEN mIdx' = mIdx + 1 /\ UNCHANGED mpc
            ELSE mIdx' = 1 /\ mpc' = "shutDown"
    /\ UNCHANGED <<confVars, prodVars, workVars, consVars>>

\* Reduce::shutDown: _run.store(false, relaxed)
ShutDown ==
    /\ Running
    /\ mpc = "shutDown"
    /\ run' = FALSE
    /\ mpc' = IF useSemaphore THEN "shutDownSignal" ELSE "joinConsumer"
    /\ UNCHANGED <<confVars, prodVars, workVars, outItems, itemAvailable,
                   rSlotEmpty, cpc, cIdx, cItem, nothingToDo, sunk, mIdx>>

\* Reduce::shutDown: itemAvailableSemaphore.signal()
ShutDownSignal ==
    /\ Running
    /\ mpc = "shutDownSignal"
    /\ itemAvailable' = Signal(itemAvailable, 1)
    /\ mpc' = "joinConsumer"
    /\ UNCHANGED <<confVars, prodVars, workVars, outItems, run, rSlotEmpty,
                   cpc, cIdx, cItem, nothingToDo, sunk, mIdx>>

\* a shutDown that does not join the consumer thread
ShutDownWithoutJoin ==
    /\ Running
    /\ mpc = "joinConsumer"
    /\ mpc' = "returned"
    /\ UNCHANGED <<confVars, prodVars, workVars, consVars, mIdx>>

\* Reduce::shutDown: _thread.join(); waitForFinish returns
JoinConsumer ==
    /\ Running
    /\ mpc = "joinConsumer"
    /\ cpc = "done"
    /\ mpc' = "returned"
    /\ UNCHANGED <<confVars, prodVars, workVars, consVars, mIdx>>

\* Produce::~Produce: _thread.join()
ProduceDestructor ==
    /\ Running
    /\ mpc = "returned"
    /\ ppc = "done"
    /\ mpc' = "destroyed"
    /\ UNCHANGED <<confVars, prodVars, workVars, consVars, mIdx>>

Main ==
    \/ PTC_start
    \/ JoinWorker
    \/ ReduceIdle
    \/ ShutDown
    \/ ShutDownSignal
    \/ JoinConsumer
    \/ ProduceDestructor

----------------------------------------------------------------------------
\* Runs in which neither the source nor the transformer throws

Next ==
    \/ Main
    \/ Producer
    \/ Consumer
    \/ \E w \in Workers : Worker(w)

Spec == Init /\ [][Next]_vars

----------------------------------------------------------------------------
\* Runs in which the source or the transformer may throw. Neither thread
\* lambda has a handler, so the exception leaves the thread's function and
\* std::terminate ends the process: no thread takes another step.

\* _source(currentItem) throws (ReadReader::operator() prints and rethrows)
ProducerSourceThrows ==
    /\ Running
    /\ ppc = "source"
    /\ numCalls' = numCalls + 1
    /\ raised' = "source"
    /\ process' = "aborted"
    /\ UNCHANGED <<useSemaphore, numThreads, readVars, inItems, eof,
                   pSlotEmpty, readAvailable, ppc, pIdx, pItem, noEmptySlot,
                   numProduced, workVars, consVars, mainVars>>

\* _transformer(std::move(item)) throws
WorkerTransformThrows(w) ==
    /\ Running
    /\ wpc[w] = "transform"
    /\ raised' = "transformer"
    /\ process' = "aborted"
    /\ UNCHANGED <<useSemaphore, numThreads, readVars, prodVars, workVars,
                   consVars, mainVars>>

NextErr ==
    \/ Next
    \/ ProducerSourceThrows
    \/ \E w \in Workers : WorkerTransformThrows(w)

SpecErr == Init /\ [][NextErr]_vars

----------------------------------------------------------------------------
\* One schedule of the threads that PTC_unit::start and Produce::start create,
\* out of those the operating system may choose; every run under it is a run
\* of Spec's next-state relation. The source has more than Overtaken items,
\* where item Overtaken is the one the next item overtakes: the second item
\* for one worker (which withdraws the items 1, 3, 2), the first otherwise.
\*  - the workers and the consumer get their first time slice late: a worker
\*    once the producer has filled the second slot, the consumer once an
\*    output slot is filled;
\*  - a worker that starts a scan before the second withdrawal is not run
\*    until the producer has filled the first slot (a fast producer);
\*  - the worker holding the result of item Overtaken is not run at its
\*    publishing CAS until the result of the next item has been sunk (a slow
\*    worker).
Overtaken == IF numThreads = 1 THEN 2 ELSE 1

SlowScan(w) ==
    (wpc[w] = "load" /\ wIdx[w] = 1 /\ numTaken < 2) =>
        (inItems[1] # 0 \/ eof)

SlowPublish(w) ==
    (wpc[w] = "pushCas" /\ wNew[w] = Transformer(Overtaken)) =>
        \E i \in DOMAIN sunk : sunk[i] = Transformer(Overtaken + 1)

LateWorker(w) ==
    (wpc[w] = "eofLoad" /\ numTaken = 0) => (inItems[2] # 0 \/ eof)

LateConsumer ==
    (cpc = "loop" /\ ~nothingToDo /\ sunk = <<>>) =>
        \E s \in DOMAIN outItems : outItems[s] # 0

SlowWorker(w) == LateWorker(w) /\ SlowScan(w) /\ SlowPublish(w) /\ Worker(w)

SlowConsumer == LateConsumer /\ Consumer

FullSourceProducer == Producer /\ (eof' => numProduced > Overtaken)

NextReorder ==
    \/ Main
    \/ FullSourceProducer
    \/ SlowConsumer
    \/ \E w \in Workers : SlowWorker(w)

FairnessReorder ==
    /\ WF_vars(Main)
    /\ WF_vars(FullSourceProducer)
    /\ WF_vars(SlowConsumer)
    /\ \A w \in 1..MaxThreads : WF_vars(w \in Workers /\ SlowWorker(w))

SpecReorder == Init /\ [][NextReorder]_vars /\ FairnessReorder

----------------------------------------------------------------------------
\* Reduce is a public class: its shutDown can be called by an owner that has
\* finished pushing (here: has joined the workers) but did not spin on idle()
\* first, so that output slots may still hold items.

\* Reduce::shutDown entered without the idle() spin
ReduceShutDownNotIdle ==
    /\ Running
    /\ mpc = "idle"
    /\ mIdx' = 1
    /\ mpc' = "shutDown"
    /\ UNCHANGED <<confVars, prodVars, workVars, consVars>>

NextShutDown ==
    \/ Next
    \/ ReduceShutDownNotIdle

SpecShutDown == Init /\ [][NextShutDown]_vars

----------------------------------------------------------------------------
\* Fair scheduling: every thread that can take a step eventually takes one.
\* With a real semaphore the sources explored under fairness are one item
\* shorter than MaxItems.
FairMaxItems == IF useSemaphore THEN MaxItems - 1 ELSE MaxItems

FairProducer == Producer /\ numProduced' <= FairMaxItems

FairNext ==
    \/ Main
    \/ FairProducer
    \/ Consumer
    \/ \E w \in Workers : Worker(w)

Fairness ==
    /\ WF_vars(Main)
    /\ WF_vars(FairProducer)
    /\ WF_vars(Consumer)
    /\ \A w \in 1..MaxThreads : WF_vars(w \in Workers /\ Worker(w))

FairSpec == Init /\ [][FairNext]_vars /\ Fairness

----------------------------------------------------------------------------
\* ReadReader::operator() on its own: a cap firstReads, a batch size records,
\* an input that is endless or holds inputReads reads, called again and again

\* the values of an unsigned int
UIntModulus == 2 ^ UIntBits

Min(a, b) == IF a < b THEN a ELSE b

\* readReads(*item, records, streams): item->size() afterwards
ReadReads == IF endless THEN records ELSE Min(records, inputReads)

\* _numReads += item->size(), in unsigned int
NumReadsAfter == (rNumReads + ReadReads) % UIntModulus

\* item->empty() || _numReads > firstReads: the item is released, null returned
ReadReaderReleases(size, n) == size = 0 \/ n > firstReads

\* one call of ReadReader::operator() that returns (a batch or null)
ReadReaderCall ==
    /\ rCalls < MaxCalls
    /\ rCalls' = rCalls + 1
    /\ rNumReads' = NumReadsAfter
    /\ inputReads' = IF endless THEN inputReads ELSE inputReads - ReadReads
    /\ rLast' = IF ReadReaderReleases(ReadReads, NumReadsAfter)
                THEN 0 ELSE ReadReads
    /\ rReturned' = rReturned + rLast'
    /\ rEnded' = (rEnded \/ ReadReaderReleases(ReadReads, NumReadsAfter))
    /\ UNCHANGED <<useSemaphore, numThreads, process, raised, firstReads,
                   records, endless, prodVars, workVars, consVars, mainVars>>

\* the pipeline is not started; the reader's parameters are drawn
ReaderInit ==
    /\ useSemaphore = FALSE
    /\ numThreads = 1
    /\ firstReads \in 0..(UIntModulus - 1)
    /\ records \in 1..MaxRecords
    /\ endless \in BOOLEAN
    /\ inputReads \in IF endless THEN {0} ELSE 0..MaxInput
    /\ ReadReaderInit
    /\ process = "running"
    /\ raised = "none"
    /\ inItems = << >>
    /\ eof = FALSE
    /\ pSlotEmpty = 0
    /\ readAvailable = 0
    /\ ppc = "unstarted"
    /\ pIdx = 1
    /\ pItem = 0
    /\ noEmptySlot = TRUE
    /\ numCalls = 0
    /\ numProduced = 0
    /\ wpc = [w \in Workers |-> "unstarted"]
    /\ wIdx = [w \in Workers |-> 1]
    /\ wEof = [w \in Workers |-> FALSE]
    /\ wTemp = [w \in Workers |-> 0]
    /\ wItem = [w \in Workers |-> 0]
    /\ wNew = [w \in Workers |-> 0]
    /\ numTaken = 0
    /\ outItems = << >>
    /\ run = FALSE
    /\ itemAvailable = 0
    /\ rSlotEmpty = 0
    /\ cpc = "unstarted"
    /\ cIdx = 1
    /\ cItem = 0
    /\ nothingToDo = FALSE
    /\ sunk = << >>
    /\ mpc = "constructed"
    /\ mIdx = 1

ReaderNext == ReadReaderCall

ReaderSpec == ReaderInit /\ [][ReaderNext]_vars

----------------------------------------------------------------------------
\* What the properties below talk about

InputEmpty == \A s \in DOMAIN inItems : inItems[s] = 0
OutputEmpty == \A s \in DOMAIN outItems : outItems[s] = 0
WorkersDone == \A w \in Workers : wpc[w] = "done"
Returned == mpc \in {"returned", "destroyed"}

\* a sequence as a multiset: value |-> number of occurrences
BagOfSeq(q) ==
    [v \in {q[i] : i \in DOMAIN q} |-> Cardinality({i \in DOMAIN q : q[i] = v})]

\* the items the source returned true for, each through the transformer
TransformedSource == [i \in 1..numProduced |-> Transformer(i)]

----------------------------------------------------------------------------
\* C1 (Conservation). When waitForFinish has returned, the multiset of values
\* the sink was invoked on equals the multiset of the items the source
\* returned true for, each mapped through the transformer: nothing is
\* missing, nothing is extra. Checked for numThreads in 1..MaxThreads and for
\* both wakeup variants, in runs where nothing throws.
C1_Conservation ==
    Returned => BagOfSeq(sunk) = BagOfSeq(TransformedSource)

C1_Witness ==
    /\ mpc = "returned"
    /\ numThreads = 2
    /\ numProduced = 2
    /\ Len(sunk) = 2

\* C2 (No duplicate delivery). In every interleaving no item the source
\* emitted is passed to the sink twice: the values the sink received are
\* pairwise different (the source's items are distinct and the transformer
\* maps distinct items to distinct values).
C2_NoDuplicateDelivery ==
    \A i, j \in DOMAIN sunk : i # j => sunk[i] # sunk[j]

C2_Witness ==
    /\ Len(sunk) = 2
    /\ numThreads = 2
    /\ ~useSemaphore
    /\ cpc = "load"

\* C3 (Deadlock-free drain). Under fair scheduling of all threads, for every
\* source length explored (0 included), every worker count and both wakeup
\* variants, the run reaches the state where every worker has exited,
\* waitForFinish has returned, the producer and the consumer have ended, both
\* buffers are empty and every item the source returned has been passed to
\* the sink: no item stays in a buffer and no thread stays blocked on a
\* semaphore wait.
AllDrained ==
    /\ Returned
    /\ WorkersDone
    /\ ppc = "done"
    /\ cpc = "done"
    /\ InputEmpty
    /\ OutputEmpty
    /\ Len(sunk) = numProduced

C3_DeadlockFreeDrain == <>AllDrained

\* C3, the part no scheduling assumption is needed for, over the longer
\* sources of Spec: the only state in which no thread can take a step is the
\* one where everything has ended and is drained.
C3_NoThreadStuck == (mpc = "destroyed" /\ AllDrained) \/ ENABLED Next

C3_Witness ==
    /\ AllDrained
    /\ useSemaphore
    /\ numThreads = 2
    /\ numProduced = 1

\* C4 (Shutdown postcondition), as the claim states it: when waitForFinish
\* has returned, the producer thread, all workers and the consumer thread have
\* terminated and every slot of both buffers is EMPTY.
C4_AllThreadsTerminatedAtReturn ==
    mpc = "returned" =>
        /\ ppc = "done"
        /\ WorkersDone
        /\ cpc = "done"
        /\ InputEmpty
        /\ OutputEmpty

\* C4, amended. When waitForFinish has returned, all workers and the consumer
\* thread have terminated, every slot of both buffers is EMPTY and the
\* producer has stored _eof = true, holds no item and has at most its final
\* signal and its return ahead of it; the producer thread has terminated
\* once ~Produce has joined it.
C4_ShutdownPostcondition ==
    /\ Returned =>
          /\ WorkersDone
          /\ cpc = "done"
          /\ InputEmpty
          /\ OutputEmpty
          /\ eof
          /\ pItem = 0
          /\ ppc \in {"signal", "eofTest", "done"}
    /\ mpc = "destroyed" => ppc = "done"

C4_Witness ==
    /\ mpc = "returned"
    /\ ppc = "signal"
    /\ Len(sunk) = 2

\* C5 (eof is final). Once _eof is true it stays true, the producer does not
\* invoke the source again and no input slot changes from EMPTY to non-empty.
C5_EofIsFinal ==
    [][eof =>
         /\ eof'
         /\ numCalls' = numCalls
         /\ \A s \in DOMAIN inItems : inItems[s] = 0 => inItems'[s] = 0]_vars

C5_Witness ==
    /\ eof
    /\ ppc = "done"
    /\ \E s \in DOMAIN inItems : inItems[s] = 0
    /\ \E s \in DOMAIN inItems : inItems[s] # 0

C7_ExitOnlyOnDrainedEof ==
    \A w \in Workers :
        wpc[w] = "done" =>
            /\ eof
            /\ InputEmpty
            /\ pItem = 0
            /\ ppc \notin {"load", "source", "store", "wait"}

\* one worker has exited while the other is still transforming
C7_Witness ==
    \E v, w \in Workers :
        /\ wpc[v] = "done"
        /\ wpc[w] = "transform"
        /\ numProduced = 2

\* C8 (Safe teardown precondition). Whenever the coordinator invokes
\* Reduce::shutDown from waitForFinish, and from then on, _eof is true, all
\* workers have exited and every slot of both buffers is EMPTY, although
\* Reduce::idle read the output slots one at a time.
C8_SafeTeardown ==
    mpc \in {"shutDown", "shutDownSignal", "joinConsumer"} =>
        /\ eof
        /\ WorkersDone
        /\ InputEmpty
        /\ OutputEmpty

\* shutDown is invoked while the consumer still has its last item to sink
C8_Witness ==
    /\ mpc = "shutDown"
    /\ cpc = "sink"
    /\ Len(sunk) = 2

\* C9 (Source failure is surfaced), as the claim states it: when the source
\* throws on its first invocation the process does not end abnormally
\* (waitForFinish ends with the error) and the sink was not invoked.
C9_SourceFailureSurfaced ==
    (raised = "source" /\ numCalls = 1) =>
        /\ process # "aborted"
        /\ Len(sunk) = 0

\* C10 (Transformer failure is surfaced), as the claim states it: when the
\* transformer throws the process does not end abnormally (waitForFinish
\* ends with the error, no pipeline thread is left) and fewer values were
\* sunk than the source returned items.
C10_TransformerFailureSurfaced ==
    raised = "transformer" =>
        /\ process # "aborted"
        /\ Len(sunk) < numProduced


\* C11 (first-items cap), as the claim states it: reading batches of any
\* fixed size from an input that never runs out, once ReadReader::operator()
\* has returned end-of-input the batches it returned hold exactly firstReads
\* reads, which are the reads that reach the sink.
C11_ExactlyFirstReads ==
    (endless /\ rEnded) => rReturned = firstReads

\* C11, what the code does give: when the batch size divides the cap, the
\* first end-of-input comes on the call after the cap is reached and exactly
\* firstReads reads were returned before it.
C11_ExactWhenRecordsDivide ==
    (endless /\ rEnded /\ firstReads % records = 0
        /\ rCalls = firstReads \div records + 1) => rReturned = firstReads


\* C12 (EOF wakeup storm, semaphore variant). (1) The producer signals
\* readAvailableSemaphore for the end of input only with _eof already stored,
\* by NumSlots = N + 1 at once, and its next step is the return. (2) From
\* then on the semaphore's count covers every worker that waits or can still
\* come to wait on it (one that loaded _eof = false and is still scanning).
\* (3) Under fair scheduling, once _eof is true every worker exits.
MayStillWait(w) ==
    \/ wpc[w] = "wait"
    \/ wpc[w] \in {"load", "cas"} /\ ~wEof[w]

C12_StormStep ==
    /\ (eof' /\ readAvailable' > readAvailable) =>
           /\ eof
           /\ ppc = "signal"
           /\ readAvailable' = readAvailable + NumSlots
           /\ ppc' = "eofTest"
    /\ (eof /\ ppc = "eofTest" /\ ppc' # ppc) => ppc' = "done"

C12_SignalsSuffice ==
    (useSemaphore /\ eof /\ ppc \in {"eofTest", "done"}) =>
        readAvailable >= Cardinality({w \in Workers : MayStillWait(w)})

C12_EofWakeupStorm ==
    /\ [][useSemaphore => C12_StormStep]_vars
    /\ []C12_SignalsSuffice
    /\ (useSemaphore /\ eof) ~> WorkersDone

\* the source returns false while both workers are blocked on the semaphore
C12_Witness ==
    /\ useSemaphore
    /\ numThreads = 2
    /\ eof
    /\ ppc = "signal"
    /\ readAvailable = 0
    /\ \A w \in Workers : wpc[w] = "wait"


\* C13 (the consumer drains before exiting). When Reduce::shutDown is invoked
\* while an output slot is non-empty and nobody pushes any more, the consumer
\* thread has not terminated while an output slot still holds an item.
C13_ConsumerDrainsBeforeExit == (cpc = "done") => OutputEmpty

\* the same, for the pipeline's own use of shutDown (after the idle() spin)
C13_DrainedWhenShutDownAfterIdle == (cpc = "done") => OutputEmpty /\ cItem = 0


\* C14 (slot transitions). In both buffers a slot only changes from EMPTY to
\* one item or from one item to EMPTY, never from one item to another; the
\* producer's plain store hits a slot that is still EMPTY; pushItem changes the
\* output buffer only by its CAS on a slot that is EMPTY, and after a CAS that
\* fails the worker still owns its item and the buffer is as it was.
SlotStep(old, new) ==
    \A s \in DOMAIN old \cap DOMAIN new :
        old[s] # new[s] => (old[s] = 0 \/ new[s] = 0)

PushItemCasFails(w) == wpc[w] = "pushCas" /\ outItems[wIdx[w]] # 0

C14_Step ==
    /\ SlotStep(inItems, inItems')
    /\ SlotStep(outItems, outItems')
    /\ ppc = "store" => inItems[pIdx] = 0 /\ pItem # 0
    /\ \A w \in Workers :
          /\ (PushItemCasFails(w) /\ wpc'[w] # wpc[w]) =>
                 /\ wNew'[w] = wNew[w]
                 /\ wNew[w] # 0
                 /\ outItems' = outItems
          /\ \A s \in DOMAIN outItems :
                 (outItems[s] = 0 /\ outItems'[s] = wNew[w] /\ wNew[w] # 0) =>
                     wpc[w] = "pushCas" /\ wIdx[w] = s /\ wpc'[w] = "pushRelease"

C14_SlotTransitions == [][C14_Step]_vars

\* a worker is about to fail its CAS on a slot the other worker has just
\* filled, after the producer has stored both items
C14_Witness ==
    /\ \E w \in Workers : PushItemCasFails(w) /\ wNew[w] # 0
    /\ numProduced = 2


\* C15 (back-pressure on the producer). The producer is about to invoke the
\* source only on a slot it has loaded as EMPTY and that still is EMPTY, so
\* with all N + 1 input slots non-empty it invokes nothing; the number of
\* source invocations never exceeds the number of withdrawals by the workers
\* by more than N + 1.
InputFull == \A s \in Slots : inItems[s] # 0

C15_BackPressure ==
    mpc # "constructed" =>
        /\ numCalls - numTaken <= NumSlots
        /\ ppc = "source" => inItems[pIdx] = 0
        /\ InputFull => ppc \notin {"source", "store"}

\* one worker that withdraws nothing yet: both slots are full after two
\* invocations and the producer has finished a scan and waits
C15_Witness ==
    /\ numThreads = 1
    /\ mpc # "constructed"
    /\ InputFull
    /\ numCalls - numTaken = NumSlots
    /\ numProduced < MaxItems
    /\ ppc = "wait"


\* C16 (source order is not preserved). For every worker count, one worker
\* included, and both wakeup variants there are runs in which the sink
\* receives two items in the opposite order from the source's: under the
\* schedule of SpecReorder every run ends with waitForFinish returned and
\* two items of the source sunk in the opposite order. With one worker the
\* order is lost in the input buffer: the scan from slot 0 has withdrawn the
\* third item by the time the worker holds the second.
SinkInverted ==
    \E i, j \in DOMAIN sunk : i < j /\ sunk[i] > sunk[j]

Withdrawn(i) ==
    /\ numProduced >= i
    /\ pItem # i
    /\ \A s \in DOMAIN inItems : inItems[s] # i

C16_ScanInverts ==
    \A w \in Workers :
        (numThreads = 1
            /\ (wItem[w] = Overtaken \/ wNew[w] = Transformer(Overtaken)))
        => Withdrawn(Overtaken + 1)

C16_OrderNotPreserved ==
    /\ []C16_ScanInverts
    /\ <>(Returned /\ SinkInverted)

\* one worker: the items 1, 2, 3 reach the sink as 1, 3, 2
C16_Witness ==
    /\ numThreads = 1
    /\ Returned
    /\ sunk = <<Transformer(1), Transformer(3), Transformer(2)>>

\* two workers: the items 1, 2 reach the sink as 2, 1
C16_WitnessTwoWorkers ==
    /\ numThreads = 2
    /\ Returned
    /\ sunk = <<Transformer(2), Transformer(1)>>

\* C17 (bounded in-flight items). The items the source has returned and the
\* sink has not yet been invoked on are exactly the items in the input slots,
\* the producer's currentItem, the workers' item / newItem, the output slots
\* and the consumer's currentItem (an item two of these places point to
\* during a hand-over counted once, where it has been handed to). The input slots and the producer hold
\* at most N + 1 of them between them, every worker at most one, the output
\* slots at most N + 1 and the consumer at most one: at most 3N + 3 in all.
\* newItem after its CAS has succeeded and before newItem.release() points to
\* an item the output slot (or already the consumer) owns
WorkerResult(w) == IF wpc[w] = "pushRelease" THEN 0 ELSE wNew[w]

\* each item named by its result (the transformer is one-to-one)
InFlightItems ==
    ( {Transformer(pItem)}
      \cup {Transformer(inItems[s]) : s \in DOMAIN inItems}
      \cup {Transformer(wItem[w]) : w \in Workers}
      \cup {WorkerResult(w) : w \in Workers}
      \cup {outItems[s] : s \in DOMAIN outItems}
      \cup {cItem} ) \ {0}

InFlight == numProduced - Len(sunk)

InputSide ==
    Cardinality({s \in DOMAIN inItems : inItems[s] # 0})
        + (IF pItem # 0 THEN 1 ELSE 0)

WorkerSide ==
    Cardinality({w \in Workers : wItem[w] # 0})
        + Cardinality({w \in Workers : WorkerResult(w) # 0})

OutputSide ==
    Cardinality(({outItems[s] : s \in DOMAIN outItems} \cup {cItem}) \ {0})

C17_WitnessOutputSide ==
    /\ numThreads = 1
    /\ InFlight = 3
    /\ OutputSide = numThreads + 2


\* C18 (the cap is never exceeded). Over any sequence of calls of
\* ReadReader::operator() the reads in the batches it has returned are never
\* more than firstReads.
C18_CapNeverExceeded == rReturned <= firstReads

\* the same, as long as the reads read so far fit _numReads (no wrap-around
\* of the unsigned counter); then also a batch is discarded exactly when the
\* count with it exceeds firstReads
C18_CapHoldsBelowWrap ==
    (rCalls * records < UIntModulus) =>
        /\ rReturned <= firstReads
        /\ (endless /\ rCalls > 0) =>
               (rLast = 0 <=> rCalls * records > firstReads)


\* the same, for the calls the pipeline makes: none after a null return
C18_CapNeverExceededBeforeEnd == ~rEnded => rReturned <= firstReads

====
